---- MODULE Spec2Model ----
(***************************************************************************)
(* Detectolhat: the App component of src/App.tsx as a state machine.       *)
(*                                                                         *)
(* One React function component owns five state cells (useState), three    *)
(* refs (useRef), three effects (useEffect) and three asynchronous         *)
(* functions: loadModel, startWebcam and predictLoop.  JavaScript runs     *)
(* each of them to completion between two awaits, so every action below    *)
(* is one such synchronous segment.  The host (browser, Teachable Machine  *)
(* runtime, React) is the environment: it grants or denies the camera,     *)
(* resolves or rejects model.load and model.predict, fires per-frame       *)
(* callbacks and unmounts the component.                                   *)
(*                                                                         *)
(* Probabilities are fixed-point numbers in thousandths (0.6 is 600).      *)
(***************************************************************************)
EXTENDS Integers, Sequences, FiniteSets

\* ------------------------------------------------------------------ bounds

\* Most classes a loaded model has.
MaxClasses == 2

\* Most camera requests in one run.
MaxStarts == 2

\* Media tracks of the stream getUserMedia grants.
NumTracks == 2

\* ------------------------------------------------------- program constants

\* The leading threshold, 0.6, in thousandths.
Threshold == 600

\* error: string | null
Null == "null"
ErrLibs == "Required AI libraries not loaded. Please check your internet connection and refresh."
ErrModel == "Could not load the AI model. Please check your connection and try again."
ErrCamera == "Could not access the camera. Please grant permission and try again."

\* HTMLMediaElement.readyState: HAVE_NOTHING .. HAVE_ENOUGH_DATA; predictLoop
\* wants at least HAVE_FUTURE_DATA.
ReadyStates == 0..4
ReadyEnough(rs) == rs >= 3

\* ------------------------------------------------------------ input domains

AllNames == <<"A", "B", "C", "D">>
ClassNames == {AllNames[i] : i \in 1..MaxClasses}

\* Probabilities a prediction can carry: 0, exactly 0.6, 0.604 (shown as
\* 60 %), 0.61.
Probs == {0, 600, 604, 610}

NoDup(s) == \A i, j \in 1..Len(s) : i # j => s[i] # s[j]

\* What getClassLabels can return: every list of distinct class names.
LabelLists == {s \in UNION {[1..n -> ClassNames] : n \in 0..MaxClasses} : NoDup(s)}

\* What model.predict can return for a model with these labels: one entry per
\* label, in label order, with any probabilities.
PredictResults(labels) ==
    {[i \in 1..Len(labels) |-> [className |-> labels[i], probability |-> ps[i]]] :
        ps \in [1..Len(labels) -> Probs]}

Tracks == 1..NumTracks

VARIABLES
    mounted,          \* the component is mounted
    cleanupPending,   \* unmount committed, effect cleanups not yet run
    libsPresent,      \* window.tmImage && window.tf
    isLoadingModel, isStartingWebcam, webcamActive, predictions, error,
    videoRef,         \* videoRef.current is the <video> element (not null)
    modelRef,         \* modelRef.current is a model handle (not null)
    classLabels,      \* the labels of the loaded model
    rafRef,           \* requestAnimationFrameRef.current
    rafPending,       \* per-frame callbacks scheduled and neither fired nor canceled
    inFlight,         \* model.predict calls awaiting their result
    loadPc, startPc,  \* where loadModel and startWebcam stand
    effectPending,    \* webcamActive changed; its effect has not run yet
    srcObject,        \* video.srcObject is a stream
    onloadedmetadata, \* video.onloadedmetadata is set
    readyState,       \* video.readyState
    liveTracks,       \* tracks of the granted stream that are live
    stopCalls,        \* tracks that received stop()
    h                 \* history of the run, read by the properties only

vars == <<mounted, cleanupPending, libsPresent, isLoadingModel, isStartingWebcam,
          webcamActive, predictions, error, videoRef, modelRef, classLabels,
          rafRef, rafPending, inFlight, loadPc, startPc, effectPending,
          srcObject, onloadedmetadata, readyState, liveTracks, stopCalls, h>>

\* The state cells and refs of the component (what a start trigger could change).
appState == <<isLoadingModel, isStartingWebcam, webcamActive, predictions, error,
              videoRef, modelRef, classLabels, rafRef, rafPending, inFlight,
              loadPc, startPc, effectPending, srcObject, onloadedmetadata,
              readyState, liveTracks, stopCalls>>

\* Teardown is complete: unmounted and the effect cleanups have run.
tornDown == ~mounted /\ ~cleanupPending

H0 == [gumRequests |-> 0, fetches |-> 0,
       loadResult |-> "none", startResult |-> "none",
       frameProcessed |-> FALSE, loopStarted |-> FALSE, predictRejected |-> FALSE,
       lateSchedule |-> FALSE, latePredict |-> FALSE, activeAtTeardown |-> FALSE,
       refDetachedAtCleanup |-> FALSE, ignoredWhileBusy |-> FALSE]

\* useState initial values, refs after the first commit; the mount effects
\* (loadModel) have not run yet.
Init ==
    /\ mounted = TRUE /\ cleanupPending = FALSE
    /\ libsPresent \in BOOLEAN
    /\ isLoadingModel = TRUE /\ isStartingWebcam = FALSE /\ webcamActive = FALSE
    /\ predictions = <<>> /\ error = Null
    /\ videoRef = TRUE /\ modelRef = FALSE /\ classLabels = <<>>
    /\ rafRef = 0 /\ rafPending = {} /\ inFlight = 0
    /\ loadPc = "start" /\ startPc = "idle" /\ effectPending = FALSE
    /\ srcObject = FALSE /\ onloadedmetadata = FALSE /\ readyState = 0
    /\ liveTracks = {} /\ stopCalls = {}
    /\ h = H0

\* ------------------------------------------------------------- loadModel

\* A state setter: React drops updates of an unmounted component.
Set(new, old) == IF mounted THEN new ELSE old

\* The initial list built back to front.
initialPredictions_Reversed(classNames) ==
    [i \in 1..Len(classNames) |->
        [className |-> classNames[Len(classNames) + 1 - i], probability |-> 0]]

\* classNames.map(name => ({className: name, probability: 0}))
initialPredictions(classNames) ==
    [i \in 1..Len(classNames) |-> [className |-> classNames[i], probability |-> 0]]

\* loadModel whose library check sets the error and returns with the loading
\* flag still set.
LoadModelStart_KeepsLoading ==
    /\ loadPc = "start"
    /\ IF ~libsPresent
         THEN /\ error' = Set(ErrLibs, error)
              /\ UNCHANGED isLoadingModel
              /\ loadPc' = "done"
              /\ h' = [h EXCEPT !.loadResult = "libsMissing"]
         ELSE /\ loadPc' = "loading"
              /\ h' = [h EXCEPT !.fetches = @ + 1]
              /\ UNCHANGED <<error, isLoadingModel>>
    /\ UNCHANGED <<mounted, cleanupPending, libsPresent, isStartingWebcam, webcamActive,
                   predictions, videoRef, modelRef, classLabels, rafRef, rafPending,
                   inFlight, startPc, effectPending, srcObject, onloadedmetadata,
                   readyState, liveTracks, stopCalls>>

\* loadModel up to its first await: the library check, then the load request.
LoadModelStart ==
    /\ loadPc = "start"
    /\ IF ~libsPresent
         THEN /\ error' = Set(ErrLibs, error)
              /\ isLoadingModel' = Set(FALSE, isLoadingModel)
              /\ loadPc' = "done"
              /\ h' = [h EXCEPT !.loadResult = "libsMissing"]
         ELSE /\ loadPc' = "loading"
              /\ h' = [h EXCEPT !.fetches = @ + 1]
              /\ UNCHANGED <<error, isLoadingModel>>
    /\ UNCHANGED <<mounted, cleanupPending, libsPresent, isStartingWebcam, webcamActive,
                   predictions, videoRef, modelRef, classLabels, rafRef, rafPending,
                   inFlight, startPc, effectPending, srcObject, onloadedmetadata,
                   readyState, liveTracks, stopCalls>>

\* tmImage.load resolved; getClassLabels returns labels, or throws.
LoadModelResolved ==
    /\ loadPc = "loading"
    /\ \E labels \in LabelLists, labelsThrow \in BOOLEAN :
        /\ modelRef' = TRUE
        /\ classLabels' = labels
        /\ IF labelsThrow
             THEN /\ error' = Set(ErrModel, error)
                  /\ UNCHANGED predictions
                  /\ h' = [h EXCEPT !.loadResult = "failed"]
             ELSE /\ predictions' = Set(initialPredictions(labels), predictions)
                  /\ UNCHANGED error
                  /\ h' = [h EXCEPT !.loadResult = "ok"]
    /\ isLoadingModel' = Set(FALSE, isLoadingModel)
    /\ loadPc' = "done"
    /\ UNCHANGED <<mounted, cleanupPending, libsPresent, isStartingWebcam, webcamActive,
                   videoRef, rafRef, rafPending, inFlight, startPc, effectPending,
                   srcObject, onloadedmetadata, readyState, liveTracks, stopCalls>>

\* The rejection handled with the generic message of the library check and no
\* finally block.
LoadModelRejected_NoFinally ==
    /\ loadPc = "loading"
    /\ error' = Set(ErrLibs, error)
    /\ UNCHANGED isLoadingModel
    /\ loadPc' = "done"
    /\ h' = [h EXCEPT !.loadResult = "failed"]
    /\ UNCHANGED <<mounted, cleanupPending, libsPresent, isStartingWebcam, webcamActive,
                   predictions, videoRef, modelRef, classLabels, rafRef, rafPending,
                   inFlight, startPc, effectPending, srcObject, onloadedmetadata,
                   readyState, liveTracks, stopCalls>>

\* tmImage.load rejected (network, malformed resource).
LoadModelRejected ==
    /\ loadPc = "loading"
    /\ error' = Set(ErrModel, error)
    /\ isLoadingModel' = Set(FALSE, isLoadingModel)
    /\ loadPc' = "done"
    /\ h' = [h EXCEPT !.loadResult = "failed"]
    /\ UNCHANGED <<mounted, cleanupPending, libsPresent, isStartingWebcam, webcamActive,
                   predictions, videoRef, modelRef, classLabels, rafRef, rafPending,
                   inFlight, startPc, effectPending, srcObject, onloadedmetadata,
                   readyState, liveTracks, stopCalls>>

\* ------------------------------------------------------------ startWebcam

\* The start control disabled only while the camera starts.
StartButtonEnabled_IgnoresLoading == ~webcamActive /\ ~isStartingWebcam

\* The start control: rendered while the camera is not active, disabled while
\* the model loads or the camera starts.
StartButtonEnabled == ~webcamActive /\ ~(isLoadingModel \/ isStartingWebcam)

\* if (webcamActive || isStartingWebcam) return;
startWebcamGuard == webcamActive \/ isStartingWebcam

\* startWebcam from the guard to the await of getUserMedia, with the starting
\* flag left as it was.
startWebcamEnter_NoStartingFlag ==
    /\ UNCHANGED isStartingWebcam
    /\ error' = Null
    /\ startPc' = "gum"
    /\ h' = [h EXCEPT !.gumRequests = @ + 1, !.startResult = "none"]

\* startWebcam from the guard to the await of getUserMedia.
startWebcamEnter ==
    /\ isStartingWebcam' = TRUE
    /\ error' = Null
    /\ startPc' = "gum"
    /\ h' = [h EXCEPT !.gumRequests = @ + 1, !.startResult = "none"]

\* A start trigger: the user presses the start control.  A control that is
\* not rendered or is disabled dispatches no click; an enabled one calls
\* startWebcam, which returns at its guard or requests the camera.
ClickStart ==
    /\ mounted
    /\ IF StartButtonEnabled /\ ~startWebcamGuard
         THEN h.gumRequests < MaxStarts /\ startWebcamEnter
         ELSE /\ h' = [h EXCEPT !.ignoredWhileBusy =
                                        @ \/ webcamActive \/ startPc # "idle"]
              /\ UNCHANGED <<isStartingWebcam, error, startPc>>
    /\ UNCHANGED <<mounted, cleanupPending, libsPresent, isLoadingModel, webcamActive,
                   predictions, videoRef, modelRef, classLabels, rafRef, rafPending,
                   inFlight, loadPc, effectPending, srcObject, onloadedmetadata,
                   readyState, liveTracks, stopCalls>>

\* The grant path that marks the session active as soon as the stream is
\* attached, before the surface reported its metadata.
GumGranted_ActiveOnAttach ==
    /\ startPc = "gum"
    /\ liveTracks' = Tracks
    /\ IF videoRef
         THEN /\ srcObject' = TRUE
              /\ onloadedmetadata' = TRUE
              /\ readyState' = 0
              /\ startPc' = "meta"
              /\ webcamActive' = Set(TRUE, webcamActive)
              /\ effectPending' = mounted
              /\ UNCHANGED <<isStartingWebcam, h>>
         ELSE /\ isStartingWebcam' = Set(FALSE, isStartingWebcam)
              /\ startPc' = "idle"
              /\ h' = [h EXCEPT !.startResult = "dropped"]
              /\ UNCHANGED <<srcObject, onloadedmetadata, readyState, webcamActive,
                             effectPending>>
    /\ UNCHANGED <<mounted, cleanupPending, libsPresent, isLoadingModel,
                   predictions, error, videoRef, modelRef, classLabels, rafRef,
                   rafPending, inFlight, loadPc, stopCalls>>

\* getUserMedia resolved with a stream whose tracks are live.  With the
\* surface present the stream is attached and startWebcam awaits
\* loadedmetadata; without it the stream is dropped and the finally block runs.
GumGranted ==
    /\ startPc = "gum"
    /\ liveTracks' = Tracks
    /\ IF videoRef
         THEN /\ srcObject' = TRUE
              /\ onloadedmetadata' = TRUE
              /\ readyState' = 0
              /\ startPc' = "meta"
              /\ UNCHANGED <<isStartingWebcam, h>>
         ELSE /\ isStartingWebcam' = Set(FALSE, isStartingWebcam)
              /\ startPc' = "idle"
              /\ h' = [h EXCEPT !.startResult = "dropped"]
              /\ UNCHANGED <<srcObject, onloadedmetadata, readyState>>
    /\ UNCHANGED <<mounted, cleanupPending, libsPresent, isLoadingModel, webcamActive,
                   predictions, error, videoRef, modelRef, classLabels, rafRef,
                   rafPending, inFlight, loadPc, effectPending, stopCalls>>

\* The denial handled without the finally block: the starting flag stays set.
GumDenied_NoFinally ==
    /\ startPc = "gum"
    /\ error' = Set(ErrCamera, error)
    /\ UNCHANGED isStartingWebcam
    /\ startPc' = "idle"
    /\ h' = [h EXCEPT !.startResult = "denied"]
    /\ UNCHANGED <<mounted, cleanupPending, libsPresent, isLoadingModel, webcamActive,
                   predictions, videoRef, modelRef, classLabels, rafRef, rafPending,
                   inFlight, loadPc, effectPending, srcObject, onloadedmetadata,
                   readyState, liveTracks, stopCalls>>

\* getUserMedia rejected (permission denied, no device): catch, then finally.
GumDenied ==
    /\ startPc = "gum"
    /\ error' = Set(ErrCamera, error)
    /\ isStartingWebcam' = Set(FALSE, isStartingWebcam)
    /\ startPc' = "idle"
    /\ h' = [h EXCEPT !.startResult = "denied"]
    /\ UNCHANGED <<mounted, cleanupPending, libsPresent, isLoadingModel, webcamActive,
                   predictions, videoRef, modelRef, classLabels, rafRef, rafPending,
                   inFlight, loadPc, effectPending, srcObject, onloadedmetadata,
                   readyState, liveTracks, stopCalls>>

\* The grant path without the finally block: the starting flag stays set.
LoadedMetadata_NoFinally ==
    /\ startPc = "meta"
    /\ onloadedmetadata
    /\ readyState = 0
    /\ readyState' = 1
    /\ webcamActive' = Set(TRUE, webcamActive)
    /\ UNCHANGED isStartingWebcam
    /\ effectPending' = mounted
    /\ startPc' = "idle"
    /\ h' = [h EXCEPT !.startResult = "granted"]
    /\ UNCHANGED <<mounted, cleanupPending, libsPresent, isLoadingModel, predictions,
                   error, videoRef, modelRef, classLabels, rafRef, rafPending, inFlight,
                   loadPc, srcObject, onloadedmetadata, liveTracks, stopCalls>>

\* The end of startWebcam with a commit between its two setter calls:
\* setWebcamActive(true) is rendered before the finally block runs.
LoadedMetadata_CommitBetween ==
    /\ startPc = "meta"
    /\ onloadedmetadata
    /\ readyState = 0
    /\ readyState' = 1
    /\ webcamActive' = Set(TRUE, webcamActive)
    /\ UNCHANGED isStartingWebcam
    /\ effectPending' = mounted
    /\ startPc' = "finally"
    /\ h' = [h EXCEPT !.startResult = "granted"]
    /\ UNCHANGED <<mounted, cleanupPending, libsPresent, isLoadingModel, predictions,
                   error, videoRef, modelRef, classLabels, rafRef, rafPending, inFlight,
                   loadPc, srcObject, onloadedmetadata, liveTracks, stopCalls>>

\* The surface reports its metadata: the handler resolves the promise and
\* startWebcam runs to its end (setWebcamActive(true), then the finally block).
\* Both setter calls run in one task without an await between them; React
\* batches them into one render.
LoadedMetadata ==
    /\ startPc = "meta"
    /\ onloadedmetadata
    /\ readyState = 0
    /\ readyState' = 1
    /\ webcamActive' = Set(TRUE, webcamActive)
    /\ isStartingWebcam' = Set(FALSE, isStartingWebcam)
    /\ effectPending' = mounted
    /\ startPc' = "idle"
    /\ h' = [h EXCEPT !.startResult = "granted"]
    /\ UNCHANGED <<mounted, cleanupPending, libsPresent, isLoadingModel, predictions,
                   error, videoRef, modelRef, classLabels, rafRef, rafPending, inFlight,
                   loadPc, srcObject, onloadedmetadata, liveTracks, stopCalls>>

\* The surface buffers (or runs out of) frame data.
VideoProgress ==
    /\ srcObject
    /\ readyState >= 1
    /\ \E rs \in ReadyStates : rs >= 1 /\ rs # readyState /\ readyState' = rs
    /\ UNCHANGED <<mounted, cleanupPending, libsPresent, isLoadingModel, isStartingWebcam,
                   webcamActive, predictions, error, videoRef, modelRef, classLabels,
                   rafRef, rafPending, inFlight, loadPc, startPc, effectPending,
                   srcObject, onloadedmetadata, liveTracks, stopCalls, h>>

\* ------------------------------------------------------------ predictLoop

\* A handle requestAnimationFrame has not handed out before: only equality
\* with the handles still held (pending, or in the ref) is ever observed.
FreshHandle(pending) ==
    CHOOSE n \in 1..(Cardinality(pending) + 2) : n \notin pending \cup {rafRef}

\* requestAnimationFrameRef.current = requestAnimationFrame(predictLoop)
ScheduleFrame(pending) ==
    /\ rafRef' = FreshHandle(pending)
    /\ rafPending' = pending \cup {FreshHandle(pending)}

\* cancelAnimationFrame(requestAnimationFrameRef.current), when it is set
AfterCancel == IF rafRef # 0 THEN rafPending \ {rafRef} ELSE rafPending

\* The effect that starts the loop whenever the camera is active, with or
\* without a model handle.
RunWebcamEffect_NoModelCheck ==
    /\ mounted
    /\ effectPending
    /\ effectPending' = FALSE
    /\ IF webcamActive
         THEN /\ ScheduleFrame(AfterCancel)
              /\ h' = [h EXCEPT !.loopStarted = TRUE]
         ELSE /\ rafPending' = AfterCancel
              /\ UNCHANGED <<rafRef, h>>
    /\ UNCHANGED <<mounted, cleanupPending, libsPresent, isLoadingModel, isStartingWebcam,
                   webcamActive, predictions, error, videoRef, modelRef, classLabels,
                   inFlight, loadPc, startPc, srcObject, onloadedmetadata, readyState,
                   liveTracks, stopCalls>>

\* The effect on [webcamActive, predictLoop] re-runs after webcamActive
\* changed: the previous run's cleanup, then the effect body.
RunWebcamEffect ==
    /\ mounted
    /\ effectPending
    /\ effectPending' = FALSE
    /\ IF webcamActive /\ modelRef
         THEN /\ ScheduleFrame(AfterCancel)
              /\ h' = [h EXCEPT !.loopStarted = TRUE]
         ELSE /\ rafPending' = AfterCancel
              /\ UNCHANGED <<rafRef, h>>
    /\ UNCHANGED <<mounted, cleanupPending, libsPresent, isLoadingModel, isStartingWebcam,
                   webcamActive, predictions, error, videoRef, modelRef, classLabels,
                   inFlight, loadPc, startPc, srcObject, onloadedmetadata, readyState,
                   liveTracks, stopCalls>>

\* The guard without the readiness test.
predictLoopGuard_NoReadiness == modelRef /\ videoRef

\* if (modelRef.current && videoRef.current && videoRef.current.readyState >= 3)
predictLoopGuard == modelRef /\ videoRef /\ ReadyEnough(readyState)

\* predictLoop that calls model.predict without awaiting it and schedules the
\* next frame at once.
FrameCallback_NoAwait ==
    \E id \in rafPending :
        /\ ScheduleFrame(rafPending \ {id})
        /\ IF predictLoopGuard
             THEN /\ inFlight' = inFlight + 1
                  /\ h' = [h EXCEPT !.latePredict = @ \/ tornDown,
                                    !.lateSchedule = @ \/ tornDown]
             ELSE /\ h' = [h EXCEPT !.lateSchedule = @ \/ tornDown]
                  /\ UNCHANGED inFlight
        /\ UNCHANGED <<mounted, cleanupPending, libsPresent, isLoadingModel,
                       isStartingWebcam, webcamActive, predictions, error, videoRef,
                       modelRef, classLabels, loadPc, startPc, effectPending, srcObject,
                       onloadedmetadata, readyState, liveTracks, stopCalls>>

\* A per-frame callback fires: predictLoop runs to its await of model.predict,
\* or, with the guard false, to its end.
FrameCallback ==
    \E id \in rafPending :
        /\ IF predictLoopGuard
             THEN /\ inFlight' = inFlight + 1
                  /\ rafPending' = rafPending \ {id}
                  /\ h' = [h EXCEPT !.latePredict = @ \/ tornDown]
                  /\ UNCHANGED rafRef
             ELSE /\ ScheduleFrame(rafPending \ {id})
                  /\ h' = [h EXCEPT !.lateSchedule = @ \/ tornDown]
                  /\ UNCHANGED inFlight
        /\ UNCHANGED <<mounted, cleanupPending, libsPresent, isLoadingModel,
                       isStartingWebcam, webcamActive, predictions, error, videoRef,
                       modelRef, classLabels, loadPc, startPc, effectPending, srcObject,
                       onloadedmetadata, readyState, liveTracks, stopCalls>>

\* model.predict resolved: setPredictions(result), then the next frame is
\* scheduled.
PredictResolved ==
    /\ inFlight > 0
    /\ \E result \in PredictResults(classLabels) :
        predictions' = Set(result, predictions)
    /\ inFlight' = inFlight - 1
    /\ ScheduleFrame(rafPending)
    /\ h' = [h EXCEPT !.frameProcessed = @ \/ mounted,
                      !.lateSchedule = @ \/ tornDown]
    /\ UNCHANGED <<mounted, cleanupPending, libsPresent, isLoadingModel, isStartingWebcam,
                   webcamActive, error, videoRef, modelRef, classLabels, loadPc, startPc,
                   effectPending, srcObject, onloadedmetadata, readyState, liveTracks,
                   stopCalls>>

\* model.predict rejected: predictLoop has no try, so the rejection leaves it
\* at the await and nothing after it runs.
PredictRejected ==
    /\ inFlight > 0
    /\ inFlight' = inFlight - 1
    /\ h' = [h EXCEPT !.predictRejected = TRUE]
    /\ UNCHANGED <<mounted, cleanupPending, libsPresent, isLoadingModel, isStartingWebcam,
                   webcamActive, predictions, error, videoRef, modelRef, classLabels,
                   rafRef, rafPending, loadPc, startPc, effectPending, srcObject,
                   onloadedmetadata, readyState, liveTracks, stopCalls>>

\* ---------------------------------------------------------------- teardown

\* The two effect cleanups: cancel the frame the ref names; stop every track
\* of the stream on the surface, if the ref still holds the surface.
EffectCleanups(refAtCleanup) ==
    /\ rafPending' = AfterCancel
    /\ IF refAtCleanup /\ srcObject
         THEN /\ stopCalls' = stopCalls \cup Tracks
              /\ liveTracks' = {}
         ELSE UNCHANGED <<stopCalls, liveTracks>>

\* Unmount where React runs the effect cleanups inside the unmounting commit,
\* before it detaches the refs (React 16).
UnmountSync ==
    /\ mounted
    /\ loadPc # "start"
    /\ ~effectPending
    /\ mounted' = FALSE
    /\ videoRef' = FALSE
    /\ EffectCleanups(videoRef)
    /\ h' = [h EXCEPT !.activeAtTeardown = webcamActive /\ srcObject]
    /\ UNCHANGED <<cleanupPending, libsPresent, isLoadingModel, isStartingWebcam,
                   webcamActive, predictions, error, modelRef, classLabels, rafRef,
                   inFlight, loadPc, startPc, effectPending, srcObject,
                   onloadedmetadata, readyState>>

\* Unmount where React detaches the refs in the commit and runs the effect
\* cleanups afterwards (React 17 and later): the commit.
UnmountCommit ==
    /\ mounted
    /\ loadPc # "start"
    /\ ~effectPending
    /\ mounted' = FALSE
    /\ cleanupPending' = TRUE
    /\ videoRef' = FALSE
    /\ h' = [h EXCEPT !.activeAtTeardown = webcamActive /\ srcObject]
    /\ UNCHANGED <<libsPresent, isLoadingModel, isStartingWebcam, webcamActive,
                   predictions, error, modelRef, classLabels, rafRef, rafPending,
                   inFlight, loadPc, startPc, effectPending, srcObject,
                   onloadedmetadata, readyState, liveTracks, stopCalls>>

\* ... and the effect cleanups that follow it.
PassiveCleanup ==
    /\ cleanupPending
    /\ cleanupPending' = FALSE
    /\ EffectCleanups(videoRef)
    /\ h' = [h EXCEPT !.refDetachedAtCleanup = TRUE]
    /\ UNCHANGED <<mounted, libsPresent, isLoadingModel, isStartingWebcam, webcamActive,
                   predictions, error, videoRef, modelRef, classLabels, rafRef,
                   inFlight, loadPc, startPc, effectPending, srcObject,
                   onloadedmetadata, readyState>>

\* ------------------------------------------------------------------ render

\* The reducer of topPrediction with >= for >.
reducer_KeepOnTie(prev, current) ==
    IF prev.probability >= current.probability THEN prev ELSE current

\* (prev, current) => (prev.probability > current.probability ? prev : current)
reducer(prev, current) ==
    IF prev.probability > current.probability THEN prev ELSE current

\* Array.prototype.reduce with an initial value: a left fold.
RECURSIVE reduce(_, _)
reduce(list, acc) ==
    IF list = <<>> THEN acc ELSE reduce(Tail(list), reducer(acc, Head(list)))

\* predictions.reduce(..., {className: '', probability: 0})
topPredictionOf(list) == reduce(list, [className |-> "", probability |-> 0])
topPrediction == topPredictionOf(predictions)

\* The percentage cut off instead of rounded.
percentage_Truncated(probability) == probability \div 10

\* (prediction.probability * 100).toFixed(0), as a number: toFixed takes the
\* integer nearest to its argument and the larger of two equally near.
percentage(probability) == (probability + 5) \div 10

\* The highlight decided on the displayed percentage instead.
isTopPrediction_Rounded(p) ==
    percentage(p.probability) > percentage(Threshold) /\ p.className = topPrediction.className

\* The highlight decided by the threshold alone.
isTopPrediction_NoNameTest(p) == p.probability > Threshold

\* isTopPrediction={p.probability > 0.6 && p.className === topPrediction.className}
isTopPrediction(p) ==
    p.probability > Threshold /\ p.className = topPrediction.className

Next ==
    \/ LoadModelStart
    \/ LoadModelResolved
    \/ LoadModelRejected
    \/ ClickStart
    \/ GumGranted
    \/ GumDenied
    \/ LoadedMetadata
    \/ VideoProgress
    \/ RunWebcamEffect
    \/ FrameCallback
    \/ PredictResolved
    \/ PredictRejected
    \/ UnmountSync
    \/ UnmountCommit
    \/ PassiveCleanup

Spec == Init /\ [][Next]_vars

\* The host settles every getUserMedia request and the surface reports the
\* metadata of an attached stream.
FairSpec ==
    /\ Spec
    /\ WF_vars(GumGranted \/ GumDenied)
    /\ WF_vars(LoadedMetadata)

\* ------------------------------------------------- the renderer, in detail

\* Every probability in [0, 1], to the thousandth.
FineProbs == 0..1000

\* What model.predict can return, with probabilities from all of [0, 1].
FinePredictResults(labels) ==
    {[i \in 1..Len(labels) |-> [className |-> labels[i], probability |-> ps[i]]] :
        ps \in [1..Len(labels) -> FineProbs]}

\* The loop is running on a one-class model: the camera is active, the surface
\* has frame data and a first model.predict call is awaited.
InitBars ==
    /\ mounted = TRUE /\ cleanupPending = FALSE
    /\ libsPresent = TRUE
    /\ isLoadingModel = FALSE /\ isStartingWebcam = FALSE /\ webcamActive = TRUE
    /\ classLabels = <<AllNames[1]>>
    /\ predictions = initialPredictions(classLabels) /\ error = Null
    /\ videoRef = TRUE /\ modelRef = TRUE
    /\ rafRef = 1 /\ rafPending = {} /\ inFlight = 1
    /\ loadPc = "done" /\ startPc = "idle" /\ effectPending = FALSE
    /\ srcObject = TRUE /\ onloadedmetadata = TRUE /\ readyState \in {3, 4}
    /\ liveTracks = Tracks /\ stopCalls = {}
    /\ h = [H0 EXCEPT !.gumRequests = 1, !.fetches = 1, !.loadResult = "ok",
                      !.startResult = "granted", !.loopStarted = TRUE]

\* model.predict resolved with any probabilities of [0, 1]: setPredictions,
\* then the next frame is scheduled.
PredictResolvedFine ==
    /\ inFlight > 0
    /\ \E result \in FinePredictResults(classLabels) :
        predictions' = Set(result, predictions)
    /\ inFlight' = inFlight - 1
    /\ ScheduleFrame(rafPending)
    /\ h' = [h EXCEPT !.frameProcessed = @ \/ mounted,
                      !.lateSchedule = @ \/ tornDown]
    /\ UNCHANGED <<mounted, cleanupPending, libsPresent, isLoadingModel, isStartingWebcam,
                   webcamActive, error, videoRef, modelRef, classLabels, loadPc, startPc,
                   effectPending, srcObject, onloadedmetadata, readyState, liveTracks,
                   stopCalls>>

NextBars ==
    \/ PredictResolvedFine
    \/ FrameCallback

SpecBars == InitBars /\ [][NextBars]_vars

\* ------------------------------------------------------------- properties

\* The greatest probability of a list, and the places that carry it.
MaxProbability(list) ==
    CHOOSE m \in {list[i].probability : i \in 1..Len(list)} :
        \A i \in 1..Len(list) : list[i].probability <= m
MaxPlaces(list) == {i \in 1..Len(list) : list[i].probability = MaxProbability(list)}
FirstMaxPlace(list) == CHOOSE i \in MaxPlaces(list) : \A j \in MaxPlaces(list) : i <= j
LastMaxPlace(list) == CHOOSE i \in MaxPlaces(list) : \A j \in MaxPlaces(list) : j <= i

\* C1: after teardown no model.predict call is made and no new per-frame
\* callback is scheduled, in every interleaving.
C1_NothingAfterTeardown == ~h.latePredict /\ ~h.lateSchedule

\* C2: once the predict loop has started it keeps running until it is
\* canceled: while the component is mounted a per-frame callback is pending or
\* an inference call is awaited, whether or not an inference call failed.
C2_LoopKeepsRunning ==
    (h.loopStarted /\ mounted) => (rafPending # {} \/ inFlight > 0)

\* C3: a start trigger that arrives while the camera is active or a previous
\* startWebcam has not finished issues no getUserMedia request and changes no
\* state of the component.
C3_StartIdempotent ==
    [][(ClickStart /\ (webcamActive \/ startPc # "idle"))
        => (h'.gumRequests = h.gumRequests /\ UNCHANGED appState)]_vars

\* A trigger arrived while a start was in progress or the camera was active,
\* and the camera has been requested exactly once.
C3_Witness == h.ignoredWhileBusy /\ h.gumRequests = 1

\* C4: after a teardown that found the capture session active, every track of
\* the stream on the surface has received stop() and none is live.
C4_TracksStoppedOnTeardown ==
    (tornDown /\ h.activeAtTeardown) => (liveTracks = {} /\ stopCalls = Tracks)

\* C5 as stated: the leading class is the first prediction, in list order,
\* that carries the greatest probability.
C5_FirstMaxWins ==
    predictions # <<>> => topPrediction = predictions[FirstMaxPlace(predictions)]

\* C5 as amended: the leading class is the last prediction, in list order,
\* that carries the greatest probability; the empty list selects the
\* placeholder ('', 0).
C5_LastMaxWins ==
    IF predictions = <<>>
      THEN topPrediction = [className |-> "", probability |-> 0]
      ELSE topPrediction = predictions[LastMaxPlace(predictions)]

\* A processed frame left two predictions tied for the greatest probability.
C5_Witness ==
    /\ h.frameProcessed
    /\ Cardinality(MaxPlaces(predictions)) >= 2
    /\ MaxProbability(predictions) > 0

\* C6: a bar is highlighted exactly when it is the leading class and its
\* probability, as published and not as displayed, is greater than 0.6.
C6_HighlightAboveThreshold ==
    \A i \in 1..Len(predictions) :
        isTopPrediction(predictions[i])
            <=> (i = LastMaxPlace(predictions) /\ predictions[i].probability > Threshold)

\* The leading bar carries 0.604, displayed as 60 %, and is highlighted.
C6_Witness ==
    /\ webcamActive
    /\ predictions # <<>>
    /\ predictions[LastMaxPlace(predictions)].probability = 604
    /\ percentage(604) = 60
    /\ isTopPrediction(predictions[LastMaxPlace(predictions)])

\* C7: when the camera request was denied, startWebcam has ended with the
\* capture message in error, webcamActive and isStartingWebcam false, and the
\* start control ready to issue a fresh request.
C7_DeniedBackToIdle ==
    (h.startResult = "denied" /\ mounted)
        => /\ error = ErrCamera
           /\ ~webcamActive
           /\ ~isStartingWebcam
           /\ startPc = "idle"
           /\ StartButtonEnabled /\ ~startWebcamGuard

\* The camera was denied, requested afresh and denied again.
C7_Witness == h.startResult = "denied" /\ mounted /\ h.gumRequests = 2

\* C8: with the model runtime absent, loadModel ends with the loading flag
\* cleared, no model handle, an empty prediction list and no load request;
\* error holds the dependency message, which is neither null nor the capture
\* message, until a start trigger clears it.
C8_DependencyMissing ==
    (~libsPresent /\ loadPc = "done")
        => /\ ~isLoadingModel
           /\ ~modelRef
           /\ predictions = <<>>
           /\ h.fetches = 0
           /\ h.gumRequests = 0 => (error = ErrLibs /\ error # Null /\ error # ErrCamera)

\* loadModel found the runtime absent and has returned.
C8_Witness == ~libsPresent /\ loadPc = "done" /\ error = ErrLibs

\* C9: when loading the model failed, error holds the model-load message,
\* different from the dependency and capture messages, until a start trigger
\* clears it; and whenever loadModel has finished the loading flag is cleared.
C9_LoadFailure ==
    mounted =>
        /\ loadPc = "done" => ~isLoadingModel
        /\ (h.loadResult = "failed" /\ h.gumRequests = 0)
            => (error = ErrModel /\ error \notin {Null, ErrLibs, ErrCamera})

\* The load failed and the component shows the model-load message.
C9_Witness == mounted /\ h.loadResult = "failed" /\ error = ErrModel /\ ~isLoadingModel

\* C10: after a successful load and before any frame is processed the
\* prediction list has one entry per class label, in label order, each 0.
C10_InitialPredictions ==
    (h.loadResult = "ok" /\ mounted /\ ~h.frameProcessed)
        => /\ Len(predictions) = Len(classLabels)
           /\ \A i \in 1..Len(classLabels) :
                predictions[i] = [className |-> classLabels[i], probability |-> 0]

\* The model has two labels, the camera is active and no frame is processed.
C10_Witness ==
    /\ h.loadResult = "ok" /\ mounted /\ ~h.frameProcessed
    /\ Len(classLabels) >= 2
    /\ webcamActive

\* The bars start from a state the component reaches.
BarsStartReached == ~InitBars

\* C11: every published probability in [0, 1] is displayed as a whole number
\* between 0 and 100, the nearest to probability * 100, a half rounded up.
C11_RoundHalfUp ==
    \A i \in 1..Len(predictions) :
        LET p == predictions[i].probability
            n == percentage(p)
        IN  /\ n \in 0..100
            /\ 10 * n - 5 <= p
            /\ p < 10 * n + 5

\* A processed frame carries 0.605, which lies halfway between 60 % and
\* 61 % and is displayed as 61.
C11_Witness ==
    /\ h.frameProcessed
    /\ predictions[1].probability = 605
    /\ percentage(predictions[1].probability) = 61

\* C12: inference is strictly sequential: at every moment at most one
\* model.predict call is in flight and at most one per-frame callback is
\* pending, and never both, whatever start, effect and teardown events occur.
C12_SequentialInference ==
    /\ inFlight <= 1
    /\ Cardinality(rafPending) <= 1
    /\ inFlight + Cardinality(rafPending) <= 1

\* A second inference call is in flight after the first one was processed.
C12_Witness == inFlight = 1 /\ h.frameProcessed /\ mounted

\* C13: a startWebcam that set isStartingWebcam clears it again, on grant and
\* on denial: while the component is mounted the flag is false whenever
\* startWebcam is not running, and a set flag is eventually cleared.
C13_StartingCleared ==
    /\ []((mounted /\ startPc = "idle") => ~isStartingWebcam)
    /\ (mounted /\ isStartingWebcam) ~> (~mounted \/ ~isStartingWebcam)

\* startWebcam has ended on a grant with the flag cleared.
C13_Witness ==
    mounted /\ h.startResult = "granted" /\ startPc = "idle" /\ ~isStartingWebcam

\* C14: the camera lifecycle moves only Idle -> Starting -> Active, or
\* Starting -> Idle on a denial.  webcamActive turns true only in the step in
\* which a granted stream, attached to the surface, reports its metadata; once
\* true it stays true, and isStartingWebcam is not set again.
C14_Lifecycle ==
    [][/\ (~isStartingWebcam /\ isStartingWebcam')
            => (~webcamActive /\ startPc = "idle" /\ startPc' = "gum")
       /\ (~webcamActive /\ webcamActive')
            => /\ isStartingWebcam /\ ~isStartingWebcam'
               /\ startPc = "meta" /\ srcObject /\ liveTracks = Tracks
               /\ readyState = 0 /\ readyState' >= 1
       /\ (isStartingWebcam /\ ~isStartingWebcam')
            => (webcamActive' \/ h'.startResult = "denied")
       /\ webcamActive => (webcamActive' /\ ~isStartingWebcam')
      ]_vars

\* Idle -> Starting -> Idle (denied) -> Starting -> Active.
C14_Witness ==
    webcamActive /\ ~isStartingWebcam /\ h.startResult = "granted" /\ h.gumRequests = 2

\* C15: model.predict is called only with a model handle, a capture surface
\* and readyState >= 3; an iteration of predictLoop that finds one of them
\* missing calls nothing, leaves the prediction list as it is and schedules
\* the next frame.
C15_PredictOnlyWhenReady ==
    [][/\ inFlight' > inFlight => (modelRef /\ videoRef /\ readyState >= 3)
       /\ (FrameCallback /\ ~(modelRef /\ videoRef /\ readyState >= 3))
            => /\ UNCHANGED <<inFlight, predictions>>
               /\ Cardinality(rafPending') = 1
               /\ rafRef' \in rafPending' /\ rafRef' # rafRef
      ]_vars

\* The loop has scheduled its second frame without any inference call having
\* ended: an iteration found the surface not ready and rescheduled itself.
C15_Witness ==
    /\ mounted /\ h.loopStarted /\ ~h.frameProcessed /\ ~h.predictRejected
    /\ inFlight = 0 /\ rafRef = 2 /\ rafPending = {2}
    /\ readyState < 3

\* C16: a stream granted after a teardown that happened while startWebcam was
\* waiting for the camera is released: its tracks are stopped, none stays
\* live, and webcamActive does not become true.
C16_LateStreamReleased ==
    (~mounted /\ h.startResult = "dropped")
        => (liveTracks = {} /\ stopCalls = Tracks /\ ~webcamActive)

\* loadModel has ended in a failure (dependency missing or load error).
LoadFailed == h.loadResult \in {"failed", "libsMissing"}

\* The state C17 describes: no error shown, an empty prediction list and no
\* predict loop.
NoLoopNoError ==
    /\ error = Null
    /\ predictions = <<>>
    /\ ~h.loopStarted /\ rafPending = {} /\ inFlight = 0

\* C17 as stated: after any failure of loadModel, once the capture has
\* succeeded the component has no model handle, no error, an empty prediction
\* list and no predict loop.
C17_FailedLoadNoLoop ==
    (LoadFailed /\ webcamActive) => (~modelRef /\ NoLoopNoError)

\* C17 as amended: only startWebcam clears error, and it does so before it
\* requests the camera; after a failure of loadModel that stored no model
\* handle (dependency missing, load request rejected), once the capture has
\* succeeded the component stays with webcamActive, no error, no handle, an
\* empty prediction list and no predict loop.
C17_NoHandleNoLoop ==
    /\ []((LoadFailed /\ ~modelRef /\ webcamActive) => NoLoopNoError)
    /\ [][/\ (error # Null /\ error' = Null) => (startPc = "idle" /\ startPc' = "gum")
          /\ (startPc = "idle" /\ startPc' = "gum") => error' = Null
          /\ (LoadFailed /\ ~modelRef /\ webcamActive)
                => (LoadFailed /\ ~modelRef /\ webcamActive)'
         ]_vars

\* The load request was rejected, the capture succeeded and its effect ran.
C17_Witness ==
    /\ h.loadResult = "failed" /\ ~modelRef
    /\ webcamActive /\ ~effectPending /\ mounted
    /\ error = Null

\* C18: no camera request is issued while isLoadingModel is true: loadModel
\* has finished before the first getUserMedia call, and when webcamActive
\* turns true after a successful load the model handle is present and the
\* effect that follows starts the predict loop.
C18_LoadBeforeCamera ==
    /\ [](h.gumRequests > 0 => (loadPc = "done" /\ ~isLoadingModel))
    /\ []((h.loadResult = "ok" /\ webcamActive /\ ~effectPending)
            => (modelRef /\ h.loopStarted))
    /\ [][/\ h'.gumRequests > h.gumRequests => (~isLoadingModel /\ loadPc = "done")
          /\ (h.loadResult = "ok" /\ ~webcamActive /\ webcamActive') => modelRef
         ]_vars

\* The load succeeded, the camera became active and the loop was started.
C18_Witness ==
    /\ h.loadResult = "ok" /\ modelRef
    /\ webcamActive /\ ~effectPending /\ mounted
    /\ h.loopStarted /\ rafPending # {}

Highlighted == {i \in 1..Len(predictions) : isTopPrediction(predictions[i])}

\* The class names of the current list, in order.
NamesOf(list) == [i \in 1..Len(list) |-> list[i].className]

\* C20: for a prediction list with unique class names at most one bar is
\* highlighted, and none when no probability exceeds 0.6, as in the initial
\* all-zero list and the empty list.
C20_AtMostOneHighlight ==
    NoDup(NamesOf(predictions))
        => /\ Cardinality(Highlighted) <= 1
           /\ (\A i \in 1..Len(predictions) : predictions[i].probability <= Threshold)
                => Highlighted = {}

\* Two bars carry more than 0.6 and exactly one of them is highlighted.
C20_Witness ==
    /\ Len(predictions) = 2
    /\ predictions[1].probability > Threshold
    /\ predictions[2].probability > Threshold
    /\ Cardinality(Highlighted) = 1
====
